---- MODULE Spec2Model ----
(***************************************************************************)
(* Model of deid/dicom/actions/jitter.py: jitter_timestamp_func (the       *)
(* option adapter) and jitter_timestamp (the value jitter).                *)
(*                                                                         *)
(* Text is a sequence of one-character strings, so that startswith,        *)
(* endswith, int(), ast.literal_eval, str() and "\\".join() are computed   *)
(* on characters.  A Python value is a record [t, s, e]: t its type, s its *)
(* text (str, int), e its elements (list, MultiValue, set).                *)
(***************************************************************************)
EXTENDS Integers, Sequences, FiniteSets, TLC

VARIABLES
    pc,               \* position of the invocation
    field,            \* the field handle: name, VR, value
    extras,           \* options given to jitter_timestamp_func, or NoExtras
    value,            \* jitter_timestamp's parameter value: the day offset
    original,         \* jitter_timestamp's local original
    new_value,        \* jitter_timestamp's local new_value
    is_multi_value,   \* jitter_timestamp's local is_multi_value
    i,                \* index of the collection element being shifted
    k,                \* cascade position: index of the next candidate pattern
    single_jittered,  \* the collection path's local single_jittered
    jittered_values,  \* the collection path's local jittered_values
    trace,            \* log entries and get_timestamp calls, in order
    raised,           \* the exception that left the call, or NoException
    ret               \* what the call returned, once it has

vars == <<pc, field, extras, value, original, new_value, is_multi_value, i, k,
          single_jittered, jittered_values, trace, raised, ret>>

----------------------------------------------------------------------------
(* Bounds and program constants *)

\* Longest collection drawn as a field value.
MaxElems == 2

\* jitter.py line 20: opts.get("days", 1)
DefaultDays == 1

\* jitter.py line 24: int(opts["years"]) * 365
DaysPerYear == 365

----------------------------------------------------------------------------
(* Python values *)

PyNone == [t |-> "None", s |-> <<>>, e |-> <<>>]
PyStr(chars) == [t |-> "str", s |-> chars, e |-> <<>>]
PyInt(chars) == [t |-> "int", s |-> chars, e |-> <<>>]
PyList(elts) == [t |-> "list", s |-> <<>>, e |-> elts]
PyMultiValue(elts) == [t |-> "MultiValue", s |-> <<>>, e |-> elts]
PySet(elts) == [t |-> "set", s |-> <<>>, e |-> elts]
PyDict == [t |-> "dict", s |-> <<>>, e |-> <<>>]

DigitChars == {"0", "1", "2", "3", "4", "5", "6", "7", "8", "9"}

RECURSIVE JoinWith(_, _)
\* sep.join(parts)
JoinWith(sep, parts) ==
    IF parts = <<>> THEN <<>>
    ELSE IF Len(parts) = 1 THEN parts[1]
    ELSE parts[1] \o sep \o JoinWith(sep, Tail(parts))

RECURSIVE Repr(_)
\* repr(v) of a value literal_eval can produce
Repr(v) ==
    CASE v.t = "None" -> <<"N", "o", "n", "e">>
      [] v.t = "str" ->
            IF \E j \in 1..Len(v.s) : v.s[j] = "'"
            THEN <<"\"">> \o v.s \o <<"\"">>
            ELSE <<"'">> \o v.s \o <<"'">>
      [] v.t = "int" -> v.s
      [] v.t = "dict" -> <<"{", "}">>
      [] v.t = "tuple" ->
            <<"(">> \o JoinWith(<<",", " ">>, [j \in 1..Len(v.e) |-> Repr(v.e[j])])
                    \o (IF Len(v.e) = 1 THEN <<",", ")">> ELSE <<")">>)
      [] v.t = "set" ->
            <<"{">> \o JoinWith(<<",", " ">>, [j \in 1..Len(v.e) |-> Repr(v.e[j])])
                    \o <<"}">>
      [] OTHER ->
            <<"[">> \o JoinWith(<<",", " ">>, [j \in 1..Len(v.e) |-> Repr(v.e[j])])
                    \o <<"]">>

\* str(v): a str is its own text, everything else its repr
Str(v) == IF v.t = "str" THEN v.s ELSE Repr(v)

\* Python truthiness: `if v:` / `if not v:`
Truthy(v) ==
    CASE v.t = "None" -> FALSE
      [] v.t = "str" -> v.s # <<>>
      [] v.t = "int" -> v.s \notin {<<"0">>, <<"-", "0">>}
      [] OTHER -> v.e # <<>>

----------------------------------------------------------------------------
(* int(text), as jitter_timestamp_func applies it to an option's value *)

RECURSIVE StripLeft(_)
StripLeft(chars) ==
    IF chars # <<>> /\ Head(chars) = " " THEN StripLeft(Tail(chars)) ELSE chars

RECURSIVE StripRight(_)
StripRight(chars) ==
    IF chars # <<>> /\ chars[Len(chars)] = " "
    THEN StripRight(SubSeq(chars, 1, Len(chars) - 1))
    ELSE chars

DigitValue(c) ==
    CASE c = "0" -> 0 [] c = "1" -> 1 [] c = "2" -> 2 [] c = "3" -> 3
      [] c = "4" -> 4 [] c = "5" -> 5 [] c = "6" -> 6 [] c = "7" -> 7
      [] c = "8" -> 8 [] c = "9" -> 9

RECURSIVE DigitsValue(_)
DigitsValue(chars) ==
    IF chars = <<>> THEN 0
    ELSE 10 * DigitsValue(SubSeq(chars, 1, Len(chars) - 1))
         + DigitValue(chars[Len(chars)])

AllDigits(chars) == chars # <<>> /\ \A j \in 1..Len(chars) : chars[j] \in DigitChars

\* int(text): [ok |-> TRUE, n |-> the integer], or [ok |-> FALSE] for ValueError
IntOf(text) ==
    LET body == StripRight(StripLeft(text))
        signed == body # <<>> /\ Head(body) \in {"-", "+"}
        digits == IF signed THEN Tail(body) ELSE body
    IN  IF AllDigits(digits)
        THEN [ok |-> TRUE,
              n |-> IF signed /\ Head(body) = "-" THEN 0 - DigitsValue(digits)
                    ELSE DigitsValue(digits)]
        ELSE [ok |-> FALSE, n |-> 0]

----------------------------------------------------------------------------
(* ast.literal_eval(text), line 58, over the characters of LiteralChars.   *)
(* First the text is parsed (SyntaxError), then the tree is converted      *)
(* (ValueError for a node that is no literal, TypeError for an unhashable  *)
(* member of a set display).                                               *)

LiteralChars == {"[", "]", "{", "}", ",", " ", "'"} \cup DigitChars \cup {"a", "c"}

IdentChars == {"a", "c"}

Node(kind, chars, elts) == [n |-> kind, s |-> chars, e |-> elts]

ParseError == [err |-> "SyntaxError", node |-> Node("None", <<>>, <<>>), rest |-> <<>>]

Parsed(node, rest) == [err |-> "", node |-> node, rest |-> rest]

RECURSIVE RunLength(_, _)
\* Length of the longest prefix of chars made of members of set
RunLength(chars, set) ==
    IF chars # <<>> /\ Head(chars) \in set
    THEN 1 + RunLength(Tail(chars), set)
    ELSE 0

Drop(chars, n) == SubSeq(chars, n + 1, Len(chars))

\* A decimal integer literal of n digits: no leading zero unless every digit
\* is zero, no name or quote right after it
NumberToken(digits, rest) ==
    IF rest # <<>> /\ Head(rest) \in IdentChars \cup {"'"} THEN ParseError
    ELSE IF \A j \in 1..Len(digits) : digits[j] = "0"
    THEN Parsed(Node("Int", <<"0">>, <<>>), rest)
    ELSE IF Head(digits) = "0" THEN ParseError
    ELSE Parsed(Node("Int", digits, <<>>), rest)

SplitAt(chars, n) == [head |-> SubSeq(chars, 1, n), rest |-> Drop(chars, n)]

ParseNumber(chars) ==
    NumberToken(SplitAt(chars, RunLength(chars, DigitChars)).head,
                SplitAt(chars, RunLength(chars, DigitChars)).rest)

NameToken(name, rest) ==
    IF rest # <<>> /\ Head(rest) = "'" THEN ParseError
    ELSE Parsed(Node("Name", name, <<>>), rest)

ParseName(chars) ==
    NameToken(SplitAt(chars, RunLength(chars, IdentChars \cup DigitChars)).head,
              SplitAt(chars, RunLength(chars, IdentChars \cup DigitChars)).rest)

IsTripleQuote(chars) == Len(chars) >= 3 /\ SubSeq(chars, 1, 3) = <<"'", "'", "'">>

OneMore(n) == IF n < 0 THEN -1 ELSE n + 1

RECURSIVE TripleEnd(_)
\* Number of characters before the first three consecutive quotes, or -1
TripleEnd(chars) ==
    IF Len(chars) < 3 THEN -1
    ELSE IF IsTripleQuote(chars) THEN 0
    ELSE OneMore(TripleEnd(Tail(chars)))

\* The string whose body has n characters and whose closing quotes are q
\* characters; n < 0 or n = Len(body): it is not closed
StringToken(body, n, q) ==
    IF n < 0 \/ n = Len(body) THEN ParseError
    ELSE Parsed(Node("Str", SubSeq(body, 1, n), <<>>), Drop(body, n + q))

\* A string literal in single quotes, or in triple single quotes; chars
\* starts at the opening quote
ParseString(chars) ==
    IF IsTripleQuote(chars)
    THEN StringToken(Drop(chars, 3), TripleEnd(Drop(chars, 3)), 3)
    ELSE StringToken(Tail(chars), RunLength(Tail(chars), LiteralChars \ {"'"}), 1)

RECURSIVE ParseExpr(_), ParsePostfix(_, _), ParseItems(_, _, _)

\* A list display from its parsed items
ListDisplay(r) ==
    IF r.err # "" THEN ParseError
    ELSE Parsed(Node("List", <<>>, r.node.e), r.rest)

\* A set display from its parsed items; {} is the empty dict
SetDisplay(r) ==
    IF r.err # "" THEN ParseError
    ELSE IF r.node.e = <<>> THEN Parsed(Node("Dict", <<>>, <<>>), r.rest)
    ELSE Parsed(Node("Set", <<>>, r.node.e), r.rest)

\* An atom; chars is not empty and starts at the atom
ParseAtom(chars) ==
    CASE Head(chars) \in DigitChars -> ParseNumber(chars)
      [] Head(chars) \in IdentChars -> ParseName(chars)
      [] Head(chars) = "'" -> ParseString(chars)
      [] Head(chars) = "[" -> ListDisplay(ParseItems(Tail(chars), "]", <<>>))
      [] Head(chars) = "{" -> SetDisplay(ParseItems(Tail(chars), "}", <<>>))
      [] OTHER -> ParseError

\* The trailers of a parsed atom
Trailers(atom) ==
    IF atom.err # "" THEN ParseError ELSE ParsePostfix(atom.node, atom.rest)

\* One expression: an atom, then its trailers
ParseExpr(text) ==
    IF StripLeft(text) = <<>> THEN ParseError
    ELSE Trailers(ParseAtom(StripLeft(text)))

\* A subscription of node, from the parsed items of its brackets
Subscription(node, r) ==
    IF r.err # "" \/ r.node.e = <<>> THEN ParseError
    ELSE ParsePostfix(Node("Subscript", <<>>, <<node>>), r.rest)

\* Adjacent string literals, which Python concatenates
Adjacent(node, r) ==
    IF r.err # "" THEN ParseError
    ELSE ParsePostfix(Node("Str", node.s \o r.node.s, <<>>), r.rest)

PostfixAt(node, chars) ==
    IF chars = <<>> THEN Parsed(node, chars)
    ELSE IF Head(chars) = "["
    THEN Subscription(node, ParseItems(Tail(chars), "]", <<>>))
    ELSE IF Head(chars) = "'" /\ node.n = "Str" THEN Adjacent(node, ParseString(chars))
    ELSE IF Head(chars) \in {",", "]", "}"} THEN Parsed(node, chars)
    ELSE ParseError

\* Trailers of an atom: subscriptions, and adjacent string literals
ParsePostfix(node, text) == PostfixAt(node, StripLeft(text))

\* After one item r of a display: a comma and more items, or the closing
\* character
AfterItem(r, close, acc) ==
    IF r.err # "" THEN ParseError
    ELSE IF r.rest = <<>> THEN ParseError
    ELSE IF Head(r.rest) = ","
    THEN ParseItems(Tail(r.rest), close, Append(acc, r.node))
    ELSE IF Head(r.rest) = close
    THEN Parsed(Node("Items", <<>>, Append(acc, r.node)), Tail(r.rest))
    ELSE ParseError

ItemsAt(chars, close, acc) ==
    IF chars = <<>> THEN ParseError
    ELSE IF Head(chars) = close THEN Parsed(Node("Items", <<>>, acc), Tail(chars))
    ELSE AfterItem(ParseExpr(chars), close, acc)

\* Comma-separated expressions up to the closing character, a trailing comma
\* allowed; text starts after the opening character
ParseItems(text, close, acc) == ItemsAt(StripLeft(text), close, acc)

RECURSIVE ParseTestList(_, _)

AfterTest(r, acc) ==
    IF r.err # "" THEN ParseError
    ELSE IF r.rest = <<>> THEN Parsed(Node("Tuple", <<>>, Append(acc, r.node)), <<>>)
    ELSE IF Head(r.rest) = "," THEN ParseTestList(Tail(r.rest), Append(acc, r.node))
    ELSE ParseError

\* The expressions after the first comma of a top-level tuple
ParseTestList(text, acc) ==
    IF StripLeft(text) = <<>> THEN Parsed(Node("Tuple", <<>>, acc), <<>>)
    ELSE AfterTest(ParseExpr(text), acc)

TopLevel(r) ==
    IF r.err # "" THEN ParseError
    ELSE IF r.rest = <<>> THEN r
    ELSE IF Head(r.rest) = "," THEN ParseTestList(Tail(r.rest), <<r.node>>)
    ELSE ParseError

\* ast.parse(text, mode='eval'): one expression, or a tuple of them
ParseEval(text) == TopLevel(ParseExpr(text))

Converted(v) == [err |-> "", v |-> v]

ConvertError(kind) == [err |-> kind, v |-> PyNone]

Hashable(v) == v.t \notin {"list", "set", "dict"}

RECURSIVE Convert(_), ConvertAll(_, _, _)

\* The converted members r as a value of type t
Container(r, t) ==
    IF r.err # "" THEN r ELSE Converted([t |-> t, s |-> <<>>, e |-> r.v.e])

\* literal_eval's _convert
Convert(node) ==
    CASE node.n = "Int" -> Converted(PyInt(node.s))
      [] node.n = "Str" -> Converted(PyStr(node.s))
      [] node.n = "Dict" -> Converted(PyDict)
      [] node.n = "List" -> Container(ConvertAll(node.e, <<>>, FALSE), "list")
      [] node.n = "Tuple" -> Container(ConvertAll(node.e, <<>>, FALSE), "tuple")
      [] node.n = "Set" -> Container(ConvertAll(node.e, <<>>, TRUE), "set")
      [] OTHER -> ConvertError("ValueError")

\* A converted member r joins acc; a set display hashes each member as it is
\* added and keeps one of equal members
AddMember(r, nodes, acc, hashed) ==
    IF r.err # "" THEN r
    ELSE IF hashed /\ ~Hashable(r.v) THEN ConvertError("TypeError")
    ELSE IF hashed /\ \E j \in 1..Len(acc) : acc[j] = r.v
    THEN ConvertAll(Tail(nodes), acc, hashed)
    ELSE ConvertAll(Tail(nodes), Append(acc, r.v), hashed)

\* The members converted left to right
ConvertAll(nodes, acc, hashed) ==
    IF nodes = <<>> THEN Converted(PyList(acc))
    ELSE AddMember(Convert(Head(nodes)), nodes, acc, hashed)

Evaluated(r) == IF r.err # "" THEN ConvertError("SyntaxError") ELSE Convert(r.node)

\* ast.literal_eval(text): [err |-> "", v |-> the value], or the exception
literal_eval(text) == Evaluated(ParseEval(text))

----------------------------------------------------------------------------
(* Inputs *)

Date1 == <<"2", "0", "2", "0", "0", "1", "0", "1">>
Date2 == <<"2", "0", "2", "0", "0", "1", "0", "3">>
DateTime1 == <<"2", "0", "2", "0", "0", "1", "0", "1", "1", "2", "0", "0", "0", "0">>
NotADate == <<"n", "o", "t", "-", "a", "-", "d", "a", "t", "e">>

\* Collections drawn are the prefixes of this one: distinct members, so that
\* a member out of place shows
BaseMembers == <<PyStr(Date1), PyStr(Date2), PyStr(NotADate), PyStr(DateTime1)>>

Collections ==
    UNION {{PyList(SubSeq(BaseMembers, 1, n)), PyMultiValue(SubSeq(BaseMembers, 1, n))} :
           n \in 0..MaxElems}

\* Strings that begin with "[" and end with "]"
BracketedTexts ==
    { <<"[">> \o Date1 \o <<",", " ">> \o Date2 \o <<"]">>,
      <<"[", "'">> \o Date1 \o <<"'", ",", " ", "a", "]">> ,
      <<"[", "'">> \o Date1 \o <<"'", "]">>,
      <<"[", "a", "c", "]">>,
      <<"[", "0", "1", "]">>,
      <<"[", "]">>,
      <<"[", "{", "[", "]", "}", "]">>,
      <<"[", "1", "]", ",", "[", "2", "]">> }

ScalarTexts == {<<>>, Date1, DateTime1, NotADate} \cup BracketedTexts

FieldValues == {PyNone} \cup {PyStr(t) : t \in ScalarTexts} \cup Collections

\* ast.literal_eval of every bracketed text drawn, evaluated once
LiteralOf == [text \in BracketedTexts |-> literal_eval(text)]

\* "UN" stands for every VR that is neither DA nor DT
VRs == {"DA", "DT", "UN"}

Fields == [name : {"StudyDate"}, VR : VRs, value : FieldValues]

\* What parse_keyvalue_pairs hands over: the options present, each a text
OptionKeys == {"days", "years"}
DaysTexts == {<<"0">>, <<"x">>}
YearsTexts == {<<"-", "1">>, <<"1", ".", "5">>}
OptionMaps ==
    {[key \in keys |-> IF key = "days" THEN d ELSE y] :
        keys \in SUBSET OptionKeys, d \in DaysTexts, y \in YearsTexts}

\* The value a direct caller of jitter_timestamp passes: an int, or a str
\* that int() accepts
PyNumber(n) == [t |-> "int", n |-> n, s |-> <<>>]
DirectValues == {PyNumber(5), [t |-> "str", n |-> 0, s |-> <<"-", "1", "0">>]}

\* extras when jitter_timestamp is called directly: no options were parsed
NoExtras == [direct |-> <<>>]
NoException == [fn |-> "", exc |-> ""]
NotReturned == [t |-> "unset", s |-> <<>>, e |-> <<>>]

----------------------------------------------------------------------------
(* The log (deid.logger.bot) and the calls of get_timestamp *)

\* A log entry: its level, which message of jitter.py it is, what the
\* message names, the format it names, the element index it was logged at
LogEntry(level, msg, names, fmt, idx) ==
    [ev |-> "log", level |-> level, msg |-> msg, names |-> names, fmt |-> fmt,
     idx |-> idx, arg |-> PyNone, days |-> 0, out |-> ""]

\* A call get_timestamp(arg, jitter_days=days, format=fmt) and how it ended
CallEntry(arg, days, fmt, idx, out) ==
    [ev |-> "call", level |-> "", msg |-> "", names |-> {}, fmt |-> fmt,
     idx |-> idx, arg |-> arg, days |-> days, out |-> out]

\* How a call of get_timestamp can end: it returns a shifted string, it
\* returns an empty string, or it raises (a mismatch or any other Exception:
\* jitter.py catches both alike)
ShiftOutcomes == {"ok", "empty", "raise"}

\* The string get_timestamp returns
get_timestamp(item_date, jitter_days, format, out) ==
    IF out = "ok"
    THEN PyStr(<<"shift(">> \o Str(item_date)
               \o <<";", ToString(jitter_days), ";", format, ")">>)
    ELSE PyStr(<<>>)

----------------------------------------------------------------------------
(* jitter_timestamp_func, lines 13-25 *)

\* ResolveOffset with the years added as days: the factor 365 forgotten
ResolveOffset_YearsAsDays(opts) ==
    LET days == IF "days" \in DOMAIN opts THEN IntOf(opts["days"])
                ELSE [ok |-> TRUE, n |-> DefaultDays]
        years == IF "years" \in DOMAIN opts THEN IntOf(opts["years"])
                 ELSE [ok |-> TRUE, n |-> 0]
    IN  IF ~days.ok \/ ~years.ok THEN [ok |-> FALSE, n |-> 0]
        ELSE [ok |-> TRUE, n |-> years.n + days.n]

\* Lines 20-24: the day offset of the options, or the ValueError of int()
ResolveOffset(opts) ==
    LET days == IF "days" \in DOMAIN opts THEN IntOf(opts["days"])
                ELSE [ok |-> TRUE, n |-> DefaultDays]
        years == IF "years" \in DOMAIN opts THEN IntOf(opts["years"])
                 ELSE [ok |-> TRUE, n |-> 0]
    IN  IF ~days.ok \/ ~years.ok THEN [ok |-> FALSE, n |-> 0]
        ELSE IF "years" \in DOMAIN opts
        THEN [ok |-> TRUE, n |-> (years.n * DaysPerYear) + days.n]
        ELSE [ok |-> TRUE, n |-> days.n]

\* The wrapper resolves the offset and calls jitter_timestamp(field, value)
jitter_timestamp_func ==
    /\ pc = "idle"
    /\ \E opts \in OptionMaps :
          LET r == ResolveOffset(opts)
          IN  /\ extras' = opts
              /\ IF r.ok
                 THEN /\ value' = PyNumber(r.n)
                      /\ pc' = "enter"
                      /\ raised' = raised
                 ELSE /\ value' = value
                      /\ pc' = "raised"
                      /\ raised' = [fn |-> "jitter_timestamp_func", exc |-> "ValueError"]
    /\ UNCHANGED <<field, original, new_value, is_multi_value, i, k,
                   single_jittered, jittered_values, trace, ret>>

\* A caller other than the wrapper calls jitter_timestamp(field, value)
jitter_timestamp_call ==
    /\ pc = "idle"
    /\ \E v \in DirectValues : value' = v
    /\ pc' = "enter"
    /\ UNCHANGED <<field, extras, original, new_value, is_multi_value, i, k,
                   single_jittered, jittered_values, trace, raised, ret>>

----------------------------------------------------------------------------
(* jitter_timestamp, lines 28-246 *)

\* Lines 49-53: a str that starts with "[" and ends with "]"
LooksLikeList(v) ==
    /\ v.t = "str"
    /\ v.s # <<>>
    /\ Head(v.s) = "["
    /\ v.s[Len(v.s)] = "]"

\* Lines 54-64: what the try around ast.literal_eval leaves of its outcome
\* r: the value, the warning when a ValueError or SyntaxError was caught, the
\* exception when anything else was raised
CaughtLiteral(v, r) ==
    IF r.err = "" THEN [v |-> r.v, warned |-> FALSE, exc |-> ""]
    ELSE IF r.err \in {"ValueError", "SyntaxError"}
    THEN [v |-> v, warned |-> TRUE, exc |-> ""]
    ELSE [v |-> v, warned |-> FALSE, exc |-> r.err]

\* UnwrapLiteral without the unwrapping: the string is left as it is
UnwrapLiteral_Skipped(v) == [v |-> v, warned |-> FALSE, exc |-> ""]

\* Lines 49-64: the value after the attempt to read it as a list
UnwrapLiteral(v) ==
    IF LooksLikeList(v) THEN CaughtLiteral(v, LiteralOf[v.s])
    ELSE [v |-> v, warned |-> FALSE, exc |-> ""]

\* Line 67: isinstance(original, (MultiValue, list))
IsMultiValue(v) == v.t \in {"MultiValue", "list"}

\* Cascade with the DT candidates in the order of the format's description
\* (fractional, whole seconds, timezone)
Cascade_TimezoneLast(dcmvr) ==
    CASE dcmvr = "DA" -> <<"%Y%m%d">>
      [] dcmvr = "DT" -> <<"%Y%m%d%H%M%S.%f", "%Y%m%d%H%M%S", "%Y%m%d%H%M%S.%f%z">>
      [] OTHER -> <<"%Y%m%d", "%Y%m%d%H%M%S", "%Y%m%d%H%M%S.%f", "%Y%m%d%H%M%S.%f%z">>

\* Cascade with a candidate tried again: the DT fallback repeats the
\* fractional pattern, the generic list repeats the date
Cascade_Repeats(dcmvr) ==
    CASE dcmvr = "DA" -> <<"%Y%m%d">>
      [] dcmvr = "DT" -> <<"%Y%m%d%H%M%S.%f", "%Y%m%d%H%M%S.%f", "%Y%m%d%H%M%S">>
      [] OTHER -> <<"%Y%m%d", "%Y%m%d", "%Y%m%d%H%M%S.%f", "%Y%m%d%H%M%S.%f%z">>

\* The candidate patterns by VR, in the order tried: lines 88, 96-116, 121-126
Cascade(dcmvr) ==
    CASE dcmvr = "DA" -> <<"%Y%m%d">>
      [] dcmvr = "DT" -> <<"%Y%m%d%H%M%S.%f", "%Y%m%d%H%M%S.%f%z", "%Y%m%d%H%M%S">>
      [] OTHER -> <<"%Y%m%d", "%Y%m%d%H%M%S", "%Y%m%d%H%M%S.%f", "%Y%m%d%H%M%S.%f%z">>

\* Handler with the generic loop's try left out: the outer clause catches
Handler_GenericUncaught(dcmvr, n) ==
    CASE dcmvr = "DA" -> "outer"
      [] dcmvr = "DT" -> IF n < 3 THEN "next" ELSE "outer"
      [] OTHER -> "outer"

\* Which except clause catches an exception of the call made with candidate
\* n: an inner one that warns and goes on to the next candidate ("next"), the
\* generic loop's on its last candidate ("last": it warns and the loop ends),
\* or the outer one ("outer": it logs an error and sets the result to None)
Handler(dcmvr, n) ==
    CASE dcmvr = "DA" -> "outer"
      [] dcmvr = "DT" -> IF n < 3 THEN "next" ELSE "outer"
      [] OTHER -> IF n < 4 THEN "next" ELSE "last"

\* The message of the warning an inner except clause logs
FormatWarning(dcmvr, n) ==
    CASE dcmvr = "DT" /\ n = 1 -> "Failed with microseconds format"
      [] dcmvr = "DT" /\ n = 2 -> "Failed with timezone format"
      [] OTHER -> "Failed to jitter with format"

\* The value being shifted
Current == IF is_multi_value THEN original.e[i] ELSE original

\* The element index log entries and calls are recorded at (0: scalar path)
Index == IF is_multi_value THEN i ELSE 0

\* Line 42: int(value) when value is no int
AsInt(v) == IF v.t = "int" THEN v ELSE PyNumber(IntOf(v.s).n)

\* Lines 47-77 for a value that is not None and was read as u: the branch on
\* its shape, up to the first call of get_timestamp
Normalized(u) ==
    IF u.exc # ""
    THEN /\ pc' = "raised"
         /\ raised' = [fn |-> "jitter_timestamp", exc |-> u.exc]
         /\ UNCHANGED <<original, new_value, is_multi_value, i, k,
                        single_jittered, jittered_values, trace, ret>>
    ELSE /\ original' = u.v
         /\ is_multi_value' = IsMultiValue(u.v)
         /\ new_value' = PyNone
         /\ k' = 1
         /\ trace' = trace
              \o (IF u.warned
                  THEN <<LogEntry("warning", "Failed to parse string as list",
                                  {"field"}, "", 0)>>
                  ELSE <<>>)
              \o (IF IsMultiValue(u.v)
                  THEN <<LogEntry("info", "Processing dates for multi-value field",
                                  {"field"}, "", 0)>>
                  ELSE <<>>)
         /\ IF IsMultiValue(u.v)
            THEN /\ jittered_values' = <<>>
                 /\ single_jittered' = PyNone
                 /\ i' = 1
                 /\ pc' = IF u.v.e = <<>> THEN "join" ELSE "shift"
            ELSE /\ pc' = "shift"
                 /\ UNCHANGED <<i, single_jittered, jittered_values>>
         /\ UNCHANGED <<raised, ret>>

\* Lines 41-77 (and 240-246 for None): the offset as an int, the value read
\* and unwrapped, the branch on its shape
jitter_timestamp ==
    /\ pc = "enter"
    /\ value' = AsInt(value)
    /\ IF field.value.t = "None"
       THEN /\ original' = field.value
            /\ new_value' = field.value
            /\ trace' = trace \o
                 <<LogEntry("debug", "has None/empty value, skipping jitter", {"field"}, "", 0),
                   LogEntry("debug", "Jitter returning value", {"field"}, "", 0)>>
            /\ ret' = field.value
            /\ pc' = "done"
            /\ UNCHANGED <<is_multi_value, i, k, single_jittered, jittered_values, raised>>
       ELSE Normalized(UnwrapLiteral(field.value))
    /\ UNCHANGED <<field, extras>>

\* One call of get_timestamp with candidate k (lines 87-136, 180-227) and the
\* except clause that catches what it raises
Shift ==
    /\ pc = "shift"
    /\ \E out \in ShiftOutcomes :
          LET dcmvr == field.VR
              fmt == Cascade(dcmvr)[k]
              call == CallEntry(Current, value.n, fmt, Index, out)
              after == IF is_multi_value THEN "element" ELSE "check"
              h == Handler(dcmvr, k)
              got == get_timestamp(Current, value.n, fmt, out)
              failed == IF h = "outer" THEN PyNone
                        ELSE IF is_multi_value THEN single_jittered ELSE new_value
              entry ==
                 IF h = "outer"
                 THEN LogEntry("error",
                               IF is_multi_value THEN "Unexpected error jittering date"
                               ELSE "Unexpected error jittering single value",
                               {"value", "field"}, "", Index)
                 ELSE LogEntry("warning", FormatWarning(dcmvr, k),
                               {"value", "format"}, fmt, Index)
          IN  IF out # "raise"
              THEN /\ trace' = Append(trace, call)
                   /\ single_jittered' = IF is_multi_value THEN got ELSE single_jittered
                   /\ new_value' = IF is_multi_value THEN new_value ELSE got
                   /\ pc' = after
                   /\ k' = k
              ELSE /\ trace' = trace \o <<call, entry>>
                   /\ single_jittered' = IF is_multi_value THEN failed ELSE single_jittered
                   /\ new_value' = IF is_multi_value THEN new_value ELSE failed
                   /\ pc' = IF h = "next" THEN "shift" ELSE after
                   /\ k' = IF h = "next" THEN k + 1 ELSE k
    /\ UNCHANGED <<field, extras, value, original, is_multi_value, i,
                   jittered_values, raised, ret>>

\* ElementEntry without the fallback to the original element
ElementEntry_NoFallback(jittered, single_date) == jittered

\* Lines 143-151: what the collection keeps for an element
ElementEntry(jittered, single_date) ==
    IF Truthy(jittered) THEN jittered ELSE single_date

\* Lines 143-151 and the loop's step (79-80): keep the shifted element or
\* the original one, go on with the next element
Element ==
    /\ pc = "element"
    /\ jittered_values' = Append(jittered_values, ElementEntry(single_jittered, Current))
    /\ trace' = IF Truthy(single_jittered) THEN trace
                ELSE Append(trace, LogEntry("warning", "JITTER not supported for value",
                                            {"value", "vr", "field"}, "", i))
    /\ IF i < Len(original.e)
       THEN /\ i' = i + 1
            /\ k' = 1
            /\ single_jittered' = PyNone
            /\ pc' = "shift"
       ELSE /\ pc' = "join"
            /\ UNCHANGED <<i, k, single_jittered>>
    /\ UNCHANGED <<field, extras, value, original, new_value, is_multi_value,
                   raised, ret>>

\* Lines 158, 164: "\\".join(str(v) for v in jittered_values)
JoinValues(values) ==
    PyStr(JoinWith(<<"\\">>, [j \in 1..Len(values) |-> Str(values[j])]))

\* Lines 153-169 and 243-246: the collection's result, returned
Join ==
    /\ pc = "join"
    /\ new_value' = JoinValues(jittered_values)
    /\ trace' = trace \o
          <<LogEntry("debug",
                     IF original.t = "MultiValue"
                     THEN "Converted MultiValue to backslash-separated string"
                     ELSE "Converting list to backslash-separated string", {}, "", 0),
            LogEntry("debug", "Completed jittering dates", {"field"}, "", 0),
            LogEntry("debug", "Jitter returning value", {"field"}, "", 0)>>
    /\ ret' = new_value'
    /\ pc' = "done"
    /\ UNCHANGED <<field, extras, value, original, is_multi_value, i, k,
                   single_jittered, jittered_values, raised>>

\* FinalWarning without the warning
FinalWarning_Silent(result) == <<>>

\* Lines 235-239: the entries the final check of a scalar logs
FinalWarning(result) ==
    IF ~Truthy(result)
    THEN <<LogEntry("warning", "JITTER not supported for field",
                    {"field", "value", "vr"}, "", 0)>>
    ELSE <<>>

\* Line 246 on the scalar path: the value returned
ScalarResult(result) == result

\* Lines 235-246: the scalar's final check, and the return
Check ==
    /\ pc = "check"
    /\ trace' = trace \o FinalWarning(new_value)
                      \o <<LogEntry("debug", "Jitter returning value", {"field"}, "", 0)>>
    /\ ret' = ScalarResult(new_value)
    /\ pc' = "done"
    /\ UNCHANGED <<field, extras, value, original, new_value, is_multi_value, i, k,
                   single_jittered, jittered_values, raised>>

----------------------------------------------------------------------------
(* The specification *)

Init ==
    /\ pc = "idle"
    /\ field \in Fields
    /\ extras = NoExtras
    /\ value = PyNumber(0)
    /\ original = PyNone
    /\ new_value = PyNone
    /\ is_multi_value = FALSE
    /\ i = 0
    /\ k = 0
    /\ single_jittered = PyNone
    /\ jittered_values = <<>>
    /\ trace = <<>>
    /\ raised = NoException
    /\ ret = NotReturned

Next ==
    \/ jitter_timestamp_func
    \/ jitter_timestamp_call
    \/ jitter_timestamp
    \/ Shift
    \/ Element
    \/ Join
    \/ Check

Spec == Init /\ [][Next]_vars

\* The interpreter runs a call to its end
FairSpec == Spec /\ WF_vars(Next)

----------------------------------------------------------------------------
(* Reading the trace *)

IsCall(e) == e.ev = "call"

\* The calls of get_timestamp made for element idx (0: the scalar), in order
CallsOf(idx) == SelectSeq(trace, LAMBDA e : IsCall(e) /\ e.idx = idx)

AllCalls == SelectSeq(trace, IsCall)

LastOf(calls) == calls[Len(calls)]

\* The element indexes calls were made for
CalledIndexes == {trace[p].idx : p \in {q \in DOMAIN trace : IsCall(trace[q])}}

\* The shift of element idx succeeded: its last call returned a shifted string
Succeeded(idx) == CallsOf(idx) # <<>> /\ LastOf(CallsOf(idx)).out = "ok"

\* Log entries of a level that name the field
Naming(level, what) ==
    SelectSeq(trace, LAMBDA e : e.ev = "log" /\ e.level = level /\ what \in e.names)

AtLevel(level) == SelectSeq(trace, LAMBDA e : e.ev = "log" /\ e.level = level)

\* The call went through jitter_timestamp_func
ThroughFunc == pc # "idle" /\ "direct" \notin DOMAIN extras

Returned == pc = "done"

ScalarPath == Returned /\ field.value.t # "None" /\ ~is_multi_value

\* The scalar's cascade was run and no candidate matched: every call raised
NoCandidateMatched ==
    /\ ScalarPath
    /\ AllCalls # <<>>
    /\ \A n \in 1..Len(AllCalls) : AllCalls[n].out = "raise"

----------------------------------------------------------------------------
(* C1 *)

\* C1: jitter_timestamp never raises to its caller, whatever the value's
\* shape, the VR, the offset and the outcomes of get_timestamp.
C1_NeverRaises == raised.fn # "jitter_timestamp"

----------------------------------------------------------------------------
(* C2 *)

\* What the claim expects at position j of a collection's result
C2_Entry(j) ==
    IF Succeeded(j)
    THEN get_timestamp(original.e[j], value.n, LastOf(CallsOf(j)).fmt, "ok")
    ELSE original.e[j]

\* C2: a collection of n elements returns one string, the backslash-join of n
\* entries in input order: entry j is element j shifted by the invocation's
\* offset when its shift succeeded and the original element j when it failed;
\* the result is never null.
C2_CollectionJoin ==
    (Returned /\ is_multi_value) =>
        /\ IsMultiValue(field.value) => original = field.value
        /\ ret.t = "str"
        /\ ret.s = JoinWith(<<"\\">>, [j \in 1..Len(original.e) |-> Str(C2_Entry(j))])

\* A collection of two elements returned with the first shifted and the
\* second kept
C2_Witness ==
    /\ Returned
    /\ IsMultiValue(field.value)
    /\ Len(original.e) = 2
    /\ Succeeded(1)
    /\ ~Succeeded(2)

----------------------------------------------------------------------------
(* C3 *)

\* C3 as claimed: a scalar string that matches no candidate of its cascade
\* returns null, and exactly one warning naming the field is logged.
C3_Original ==
    (NoCandidateMatched /\ field.value.t = "str") =>
        /\ ret = PyNone
        /\ Len(Naming("warning", "field")) = 1

\* The string is bracketed and ast.literal_eval raised on it
FailedLiteral == LooksLikeList(field.value) /\ LiteralOf[field.value.s].err # ""

\* C3 amended: a scalar string on which the cascade was run and no candidate
\* matched returns null; the warnings naming the field are the final one, and
\* before it the failed list parse when the string is bracketed and
\* ast.literal_eval rejected it.
C3_UnparseableScalar ==
    (NoCandidateMatched /\ field.value.t = "str") =>
        /\ ret = PyNone
        /\ Len(Naming("warning", "field")) = IF FailedLiteral THEN 2 ELSE 1
        /\ LastOf(Naming("warning", "field")).msg = "JITTER not supported for field"
        /\ FailedLiteral =>
              Naming("warning", "field")[1].msg = "Failed to parse string as list"

\* A bracketed string that does not parse, left a scalar, no candidate matching
C3_Witness ==
    /\ NoCandidateMatched
    /\ field.value.t = "str"
    /\ FailedLiteral
    /\ AllCalls # <<>>

----------------------------------------------------------------------------
(* C4 *)

\* C4: a null or empty-string value is returned as it is, get_timestamp is
\* not called, and nothing is logged above debug level.
C4_EmptyNoOp ==
    (Returned /\ field.value \in {PyNone, PyStr(<<>>)}) =>
        /\ ret = field.value
        /\ AllCalls = <<>>
        /\ \A p \in DOMAIN trace : trace[p].ev = "log" /\ trace[p].level = "debug"

----------------------------------------------------------------------------
(* C5 *)

\* No value's shift ended in failure: every call that did not return a
\* shifted string was followed by another call for the same value
C5_AllShifted ==
    \A p \in DOMAIN trace :
        (IsCall(trace[p]) /\ trace[p].out # "ok") =>
            \E q \in DOMAIN trace :
                q > p /\ IsCall(trace[q]) /\ trace[q].idx = trace[p].idx

\* The entries of the list the bracketed string denotes
C5_Entries == LiteralOf[field.value.s].v.e

\* C5: a string in brackets that parses as a list whose entries all shift is
\* processed as a collection: the result is the backslash-join of the shifted
\* entries, in order, without the brackets.
C5_LiteralUnwrap ==
    (/\ Returned
     /\ LooksLikeList(field.value)
     /\ LiteralOf[field.value.s].err = ""
     /\ LiteralOf[field.value.s].v.t = "list"
     /\ C5_AllShifted) =>
        /\ is_multi_value
        /\ Len(AllCalls) >= Len(C5_Entries)
        /\ ret = PyStr(JoinWith(<<"\\">>,
                 [j \in 1..Len(C5_Entries) |->
                    get_timestamp(C5_Entries[j], value.n, LastOf(CallsOf(j)).fmt, "ok").s]))

\* "[20200101, 20200103]" with VR DA returned, both entries shifted
C5_Witness ==
    /\ Returned
    /\ field.VR = "DA"
    /\ field.value = PyStr(<<"[">> \o Date1 \o <<",", " ">> \o Date2 \o <<"]">>)
    /\ C5_AllShifted
    /\ ret.s = get_timestamp(PyInt(Date1), value.n, "%Y%m%d", "ok").s \o <<"\\">>
               \o get_timestamp(PyInt(Date2), value.n, "%Y%m%d", "ok").s

----------------------------------------------------------------------------
(* C6 *)

C6_Integer(opts, key) == key \notin DOMAIN opts \/ IntOf(opts[key]).ok

C6_Days(opts) == IF "days" \in DOMAIN opts THEN IntOf(opts["days"]).n ELSE 1

C6_Years(opts) == IF "years" \in DOMAIN opts THEN IntOf(opts["years"]).n ELSE 0

----------------------------------------------------------------------------
(* C7, C8: the cascades *)

\* The calls made for each value are the first candidates of order, one call
\* each, and only the last of them may have returned
TriedInOrder(order) ==
    \A idx \in CalledIndexes :
        /\ Len(CallsOf(idx)) <= Len(order)
        /\ \A n \in 1..Len(CallsOf(idx)) :
              /\ CallsOf(idx)[n].fmt = order[n]
              /\ CallsOf(idx)[n].days = value.n
              /\ n < Len(CallsOf(idx)) => CallsOf(idx)[n].out = "raise"

\* The value a cascade has produced once it is over: what the last call
\* returned, None when it raised
CascadeResult ==
    pc \in {"element", "check"} =>
        /\ LastOf(CallsOf(Index)).arg = Current
        /\ (IF is_multi_value THEN single_jittered ELSE new_value) =
              IF LastOf(CallsOf(Index)).out = "raise" THEN PyNone
              ELSE get_timestamp(Current, value.n, LastOf(CallsOf(Index)).fmt,
                                 LastOf(CallsOf(Index)).out)

\* The trace entry right after position p is a warning naming the format of
\* the call at p
FormatWarned(p) ==
    /\ p + 1 \in DOMAIN trace
    /\ trace[p + 1].ev = "log"
    /\ trace[p + 1].level = "warning"
    /\ "format" \in trace[p + 1].names
    /\ trace[p + 1].fmt = trace[p].fmt
    /\ trace[p + 1].idx = trace[p].idx

\* The trace entry right after position p is the outer except clause's error
ErrorLogged(p) ==
    /\ p + 1 \in DOMAIN trace
    /\ trace[p + 1].ev = "log"
    /\ trace[p + 1].level = "error"
    /\ trace[p + 1].names = {"value", "field"}
    /\ trace[p + 1].idx = trace[p].idx

RaisedAt(p) == IsCall(trace[p]) /\ trace[p].out = "raise"

C7_Order == <<"%Y%m%d%H%M%S.%f", "%Y%m%d%H%M%S.%f%z", "%Y%m%d%H%M%S">>

C8_Order == <<"%Y%m%d", "%Y%m%d%H%M%S", "%Y%m%d%H%M%S.%f", "%Y%m%d%H%M%S.%f%z">>

\* C8: for a VR that is neither DA nor DT the candidates are tried in the
\* order date, whole seconds, fractional seconds, fractional seconds with
\* timezone; the result is that of the first that succeeds and none is tried
\* after it; a candidate that fails is only warned about, and no error is
\* logged for the VR.
C8_GenericCascade ==
    field.VR \notin {"DA", "DT"} =>
        /\ TriedInOrder(C8_Order)
        /\ CascadeResult
        /\ \A p \in DOMAIN trace : RaisedAt(p) => FormatWarned(p)
        /\ AtLevel("error") = <<>>

\* A scalar of unknown VR shifted by the third candidate after two failed
C8_Witness ==
    /\ field.VR = "UN"
    /\ ScalarPath
    /\ Len(AllCalls) = 3
    /\ LastOf(AllCalls).out = "ok"
    /\ ret = get_timestamp(original, value.n, "%Y%m%d%H%M%S.%f", "ok")

----------------------------------------------------------------------------
(* C9 *)

\* C9: when the scalar's shift produced a falsy value (None, or an empty
\* string get_timestamp returned), one warning naming the field, the value
\* and the VR is logged and the value returned is null.
C9_FalsyReturnsNull ==
    (ScalarPath /\ ~Truthy(new_value)) =>
        /\ Len(SelectSeq(trace, LAMBDA e : e.ev = "log" /\ e.level = "warning"
                                          /\ e.names = {"field", "value", "vr"})) = 1
        /\ ret = PyNone

----------------------------------------------------------------------------
(* C10 *)

C10_Limit == IF field.VR = "DA" THEN 1 ELSE IF field.VR = "DT" THEN 3 ELSE 4

\* For each value: at most the VR's number of calls, no candidate twice, and
\* no call after one that returned
C10_Bounded ==
    \A idx \in CalledIndexes :
        /\ Len(CallsOf(idx)) <= C10_Limit
        /\ \A m, n \in 1..Len(CallsOf(idx)) :
              /\ m < n => CallsOf(idx)[m].fmt # CallsOf(idx)[n].fmt
              /\ m < n => CallsOf(idx)[m].out = "raise"

\* C10: within one invocation get_timestamp is called for each value with
\* each candidate at most once and never after a call that returned, so at
\* most once for DA, three times for DT and four times otherwise; and the
\* invocation ends.
C10_BoundedAttempts == [](C10_Bounded) /\ <>(pc \in {"done", "raised"})

\* An element of a collection of unknown VR on which all four candidates
\* were tried
C10_Witness ==
    /\ Returned
    /\ is_multi_value
    /\ field.VR = "UN"
    /\ Len(CallsOf(2)) = 4
    /\ Len(CallsOf(1)) = 1

====
